---- MODULE Spec2Model ----
(***************************************************************************)
(* QuickLRU (src/src/index.ts): a two-generation approximate LRU cache     *)
(* with lazy expiration.  #cache is the recent generation, #oldCache the   *)
(* stale one, #size counts the inserts into #cache since the last          *)
(* rotation.  A generation (a JS Map) is a sequence of entries with        *)
(* pairwise distinct keys, in insertion order.                             *)
(***************************************************************************)
EXTENDS Integers, Sequences, FiniteSets, TLC

\* ---- bounds of the model ----
MaxKey == 3        \* Spec: keys 1..MaxKey
MaxCap == 2        \* Spec, SpecVal: capacities 1..MaxCap (constructor and resize)
MaxNow == 1        \* the clock runs 0..MaxNow
ValKey == 2        \* SpecVal: keys 1..ValKey
MaxVal == 2        \* SpecVal: values 1..MaxVal
LRUKey == 4        \* SpecLRU: keys 1..LRUKey
LRUCap == 2        \* SpecLRU: capacities 1..LRUCap
BigKey == 5        \* SpecEvict: keys 1..BigKey
BigCap == 3        \* SpecEvict: the capacity
TTLCap == 3        \* SpecTTL: capacities 1..TTLCap (constructor and resize)
RawKey == 7        \* SpecRaw: keys 1..RawKey
RawCap == 3        \* SpecRaw: the capacity
MaxDepth == 4      \* nested has calls the call stack holds

\* ---- JavaScript values ----
Undefined == -1            \* undefined (an absent expiry, an absent result)
Infinity == 1000           \* Number.POSITIVE_INFINITY

Max(a, b) == IF a > b THEN a ELSE b
Keys == 1..MaxKey
Vals == 1..MaxVal
ValKeys == 1..ValKey
LRUKeys == 1..LRUKey
BigKeys == 1..BigKey
AllKeys == 1..Max(Max(MaxKey, ValKey), Max(LRUKey, BigKey))

VARIABLES
    cache,      \* #cache: recent generation
    oldCache,   \* #oldCache: stale generation
    size,       \* #size
    maxSize,    \* #maxSize
    maxAge,     \* #maxAge
    now,        \* Date.now()
    last,       \* the last completed call: its name, arguments, result, the onEviction
                \* calls it made, and the sizes of the two maps before it
    hist,       \* history: "sets" (only sets of distinct keys without expiry so far),
                \*          "plain" (no expiry, no delete/clear/evict/resize so far), "any"
    mru,        \* while hist # "any": the touched keys, most recently touched first
    written     \* for each stored key, the value of the last set(key, value)

vars == <<cache, oldCache, size, maxSize, maxAge, now, last, hist, mru, written>>

\* ---- Map primitives (insertion-ordered) ----
MapHas(m, k) == \E i \in DOMAIN m : m[i].key = k
MapGet(m, k) == m[CHOOSE i \in DOMAIN m : m[i].key = k]
MapSet(m, k, item) ==
    IF MapHas(m, k)
    THEN [i \in DOMAIN m |-> IF m[i].key = k THEN [key |-> k, value |-> item.value, expiry |-> item.expiry] ELSE m[i]]
    ELSE Append(m, [key |-> k, value |-> item.value, expiry |-> item.expiry])
MapDelete(m, k) == SelectSeq(m, LAMBDA e : e.key # k)
MapKeys(m) == {m[i].key : i \in DOMAIN m}
Pairs(items) == [i \in DOMAIN items |-> <<items[i].key, items[i].value>>]
Slice(items, from) == SubSeq(items, from + 1, Len(items))
Reverse(q) == [i \in DOMAIN q |-> q[Len(q) + 1 - i]]

\* the object's fields, with the onEviction calls made so far in this call
\* (emitted) and what each of them could observe of the two maps (seen)
Cur == [cache |-> cache, oldCache |-> oldCache, size |-> size, maxSize |-> maxSize,
        emitted |-> <<>>, seen |-> <<>>]

\* what a callback called with (k, v) in state s finds: whether k -> v is in
\* #cache, and whether it is in #oldCache
Holds(m, k, v) == \E i \in DOMAIN m : m[i].key = k /\ m[i].value = v
Observed(s, k, v) == [cache |-> Holds(s.cache, k, v), oldCache |-> Holds(s.oldCache, k, v)]

\* onEviction(key, value)
OnEviction(s, k, v) ==
    [s EXCEPT !.emitted = Append(@, <<k, v>>), !.seen = Append(@, Observed(s, k, v))]

\* #emitEvictions(cache)
EmitEvictions(s, items) ==
    [s EXCEPT !.emitted = @ \o Pairs(items),
              !.seen = @ \o [i \in DOMAIN items |->
                                Observed(s, items[i].key, items[i].value)]]


\* delete that stops at the first map that held the key
\* (`deleted || this.#oldCache.delete(key)`)
DeleteKey_FirstOnly(s, k) ==
    LET deleted == MapHas(s.cache, k)
    IN  [st  |-> [s EXCEPT !.cache = MapDelete(@, k),
                           !.size = IF deleted THEN @ - 1 ELSE @,
                           !.oldCache = IF deleted THEN @ ELSE MapDelete(@, k)],
         ret |-> deleted \/ MapHas(s.oldCache, k)]

\* delete without the `if (deleted) this.#size--`
DeleteKey_KeepSize(s, k) ==
    [st  |-> [s EXCEPT !.cache = MapDelete(@, k), !.oldCache = MapDelete(@, k)],
     ret |-> MapHas(s.oldCache, k) \/ MapHas(s.cache, k)]

\* delete(key)
DeleteKey(s, k) ==
    LET deleted == MapHas(s.cache, k)
    IN  [st  |-> [s EXCEPT !.cache = MapDelete(@, k),
                           !.size = IF deleted THEN @ - 1 ELSE @,
                           !.oldCache = MapDelete(@, k)],
         ret |-> MapHas(s.oldCache, k) \/ deleted]

\* typeof item.expiry === 'number' && item.expiry <= Date.now()
IsExpired(item) == item.expiry # Undefined /\ item.expiry <= now


\* #deleteIfExpired that removes the entry without calling onEviction
DeleteIfExpired_Silent(s, k, item) ==
    IF IsExpired(item)
    THEN DeleteKey(s, k)
    ELSE [st |-> s, ret |-> FALSE]

\* #deleteIfExpired that deletes the entry before it calls onEviction
DeleteIfExpired_DeleteFirst(s, k, item) ==
    IF IsExpired(item)
    THEN LET d == DeleteKey(s, k)
         IN  [st |-> OnEviction(d.st, k, item.value), ret |-> d.ret]
    ELSE [st |-> s, ret |-> FALSE]

\* #deleteIfExpired(key, item)
DeleteIfExpired(s, k, item) ==
    IF IsExpired(item)
    THEN DeleteKey(OnEviction(s, k, item.value), k)
    ELSE [st |-> s, ret |-> FALSE]

\* #getOrDeleteIfExpired(key, item)
GetOrDeleteIfExpired(s, k, item) ==
    LET d == DeleteIfExpired(s, k, item)
    IN  [st |-> d.st, ret |-> IF ~d.ret THEN item.value ELSE Undefined]

\* #getItemValue(key, item): `item.expiry ?` is false for undefined and for 0
GetItemValue(s, k, item) ==
    IF item.expiry # Undefined /\ item.expiry # 0
    THEN GetOrDeleteIfExpired(s, k, item)
    ELSE [st |-> s, ret |-> item.value]

\* #peek(key, cache)
PeekIn(s, k, m) == GetItemValue(s, k, MapGet(m, k))


\* #set rotating one insert late (`>` for `>=`)
RawSet_LateRotation(s, k, item) ==
    LET c1 == MapSet(s.cache, k, item)
        n1 == s.size + 1
    IN  IF n1 > s.maxSize
        THEN [EmitEvictions(s, s.oldCache) EXCEPT !.size = 0, !.oldCache = c1, !.cache = <<>>]
        ELSE [s EXCEPT !.cache = c1, !.size = n1]

\* #set that rotates without reporting the entries of #oldCache
RawSet_SilentRotation(s, k, item) ==
    LET s1 == [s EXCEPT !.cache = MapSet(@, k, item), !.size = @ + 1]
    IN  IF s1.size >= s1.maxSize
        THEN [s1 EXCEPT !.size = 0, !.oldCache = s1.cache, !.cache = <<>>]
        ELSE s1

\* #set(key, value): the callbacks of a rotation are made after the insert and
\* before the maps are swapped
RawSet(s, k, item) ==
    LET s1 == [s EXCEPT !.cache = MapSet(@, k, item), !.size = @ + 1]
    IN  IF s1.size >= s1.maxSize
        THEN [EmitEvictions([s1 EXCEPT !.size = 0], s1.oldCache)
              EXCEPT !.oldCache = s1.cache, !.cache = <<>>]
        ELSE s1

\* #set with an onEviction that throws at its first call: the exception leaves
\* #emitEvictions and #set at once, after `this.#size = 0` and before the maps
\* are swapped (threw is FALSE when the call makes no callback)
RawSetThrown(s, k, item) ==
    LET s1 == [s EXCEPT !.cache = MapSet(@, k, item), !.size = @ + 1]
    IN  IF s1.size >= s1.maxSize /\ s1.oldCache # <<>>
        THEN [st    |-> OnEviction([s1 EXCEPT !.size = 0],
                                   s1.oldCache[1].key, s1.oldCache[1].value),
              threw |-> TRUE]
        ELSE [st |-> RawSet(s, k, item), threw |-> FALSE]

\* #moveToRecent that leaves the stale copy in #oldCache
MoveToRecent_KeepStale(s, k, item) ==
    RawSet(s, k, item)

\* #moveToRecent(key, item)
MoveToRecent(s, k, item) ==
    RawSet([s EXCEPT !.oldCache = MapDelete(@, k)], k, item)


\* a loop step that yields the entry without the expiry check
Visit_Unchecked(acc, item, skip) ==
    IF skip
    THEN acc
    ELSE [st |-> acc.st, items |-> Append(acc.items, item)]

\* one step of a `for (const item of map)` loop that visits snap[i], when the
\* entry is still in the map, and applies #deleteIfExpired unless `skip`
Visit(acc, item, skip) ==
    IF skip
    THEN acc
    ELSE LET d == DeleteIfExpired(acc.st, item.key, item)
         IN  [st |-> d.st, items |-> IF d.ret THEN acc.items ELSE Append(acc.items, item)]

\* first loop of #entriesAscending: over #oldCache, skipping keys of #cache
RECURSIVE AscendOld(_, _, _)
AscendOld(acc, snap, i) ==
    IF i > Len(snap)
    THEN acc
    ELSE AscendOld(IF MapHas(acc.st.oldCache, snap[i].key)
                   THEN Visit(acc, snap[i], MapHas(acc.st.cache, snap[i].key))
                   ELSE acc,
                   snap, i + 1)

\* second loop of #entriesAscending: over #cache
RECURSIVE AscendNew(_, _, _)
AscendNew(acc, snap, i) ==
    IF i > Len(snap)
    THEN acc
    ELSE AscendNew(IF MapHas(acc.st.cache, snap[i].key)
                   THEN Visit(acc, snap[i], FALSE)
                   ELSE acc,
                   snap, i + 1)


\* #entriesAscending with its two loops in the order of [Symbol.iterator]
EntriesAscending_RecentFirst(s) ==
    LET a == AscendNew([st |-> s, items |-> <<>>], s.cache, 1)
    IN  AscendOld(a, a.st.oldCache, 1)

\* [...this.#entriesAscending()]: the state afterwards and the items yielded
EntriesAscending(s) ==
    LET a == AscendOld([st |-> s, items |-> <<>>], s.oldCache, 1)
    IN  AscendNew(a, a.st.cache, 1)

\* first loop of entriesDescending: over the array [...this.#cache], backwards
RECURSIVE DescendNew(_, _, _)
DescendNew(acc, snap, i) ==
    IF i < 1
    THEN acc
    ELSE DescendNew(Visit(acc, snap[i], FALSE), snap, i - 1)


\* the loop over #oldCache without the `!this.#cache.has(key)` test
RECURSIVE DescendOld_NoSkip(_, _, _)
DescendOld_NoSkip(acc, snap, i) ==
    IF i < 1
    THEN acc
    ELSE DescendOld_NoSkip(Visit(acc, snap[i], FALSE), snap, i - 1)

\* second loop of entriesDescending: over the array [...this.#oldCache], backwards
RECURSIVE DescendOld(_, _, _)
DescendOld(acc, snap, i) ==
    IF i < 1
    THEN acc
    ELSE DescendOld(Visit(acc, snap[i], MapHas(acc.st.cache, snap[i].key)), snap, i - 1)

\* [...this.entriesDescending()]
EntriesDescending(s) ==
    LET a == DescendNew([st |-> s, items |-> <<>>], s.cache, Len(s.cache))
    IN  DescendOld(a, a.st.oldCache, Len(a.st.oldCache))

\* [...this]: [Symbol.iterator], #cache first and then #oldCache
Iterator(s) ==
    LET a == AscendNew([st |-> s, items |-> <<>>], s.cache, 1)
    IN  AscendOld(a, a.st.oldCache, 1)

\* get size()
SizeOf(s) ==
    IF s.size = 0
    THEN Len(s.oldCache)
    ELSE LET oldCacheSize == Cardinality(MapKeys(s.oldCache) \ MapKeys(s.cache))
             total == s.size + oldCacheSize
         IN  IF total < s.maxSize THEN total ELSE s.maxSize


\* get that returns a stale hit without moving it to #cache
GetOp_NoPromote(s, k) ==
    IF MapHas(s.cache, k)
    THEN GetItemValue(s, k, MapGet(s.cache, k))
    ELSE IF MapHas(s.oldCache, k)
         THEN LET item == MapGet(s.oldCache, k)
                  d == DeleteIfExpired(s, k, item)
              IN  [st |-> d.st, ret |-> IF ~d.ret THEN item.value ELSE Undefined]
         ELSE [st |-> s, ret |-> Undefined]

\* get that moves a recent hit to the end of #cache
GetOp_Refreshes(s, k) ==
    IF MapHas(s.cache, k)
    THEN LET r == GetItemValue(s, k, MapGet(s.cache, k))
         IN  IF r.ret # Undefined
             THEN [st  |-> [r.st EXCEPT !.cache = Append(MapDelete(@, k), MapGet(s.cache, k))],
                   ret |-> r.ret]
             ELSE r
    ELSE IF MapHas(s.oldCache, k)
         THEN LET item == MapGet(s.oldCache, k)
                  d == DeleteIfExpired(s, k, item)
              IN  IF ~d.ret
                  THEN [st |-> MoveToRecent(d.st, k, item), ret |-> item.value]
                  ELSE [st |-> d.st, ret |-> Undefined]
         ELSE [st |-> s, ret |-> Undefined]

\* get(key)
GetOp(s, k) ==
    IF MapHas(s.cache, k)
    THEN GetItemValue(s, k, MapGet(s.cache, k))
    ELSE IF MapHas(s.oldCache, k)
         THEN LET item == MapGet(s.oldCache, k)
                  d == DeleteIfExpired(s, k, item)
              IN  IF ~d.ret
                  THEN [st |-> MoveToRecent(d.st, k, item), ret |-> item.value]
                  ELSE [st |-> d.st, ret |-> Undefined]
         ELSE [st |-> s, ret |-> Undefined]

\* the expiry computed from the default alone, whatever the call's option
ExpiryFor_DefaultOnly(ma, dflt) ==
    IF dflt # Infinity THEN now + dflt ELSE Undefined

\* the expiry set(key, value, {maxAge = this.#maxAge}) computes;
\* ma = Undefined is a call without the option
ExpiryFor(ma, dflt) ==
    LET a == IF ma = Undefined THEN dflt ELSE ma
    IN  IF a # Infinity THEN now + a ELSE Undefined

\* set that goes through #set also for a key that is in #cache
SetOp_AlwaysInsert(s, k, v, ma) ==
    RawSet(s, k, [value |-> v, expiry |-> ExpiryFor(ma, maxAge)])

\* set(key, value, {maxAge})
SetOp(s, k, v, ma) ==
    LET item == [value |-> v, expiry |-> ExpiryFor(ma, maxAge)]
    IN  IF MapHas(s.cache, k)
        THEN [s EXCEPT !.cache = MapSet(@, k, item)]
        ELSE RawSet(s, k, item)

\* set(key, value, {maxAge}) with an onEviction that throws at its first call
SetOpThrown(s, k, v, ma) ==
    LET item == [value |-> v, expiry |-> ExpiryFor(ma, maxAge)]
    IN  IF MapHas(s.cache, k)
        THEN [st |-> [s EXCEPT !.cache = MapSet(@, k, item)], threw |-> FALSE]
        ELSE RawSetThrown(s, k, item)

\* has(key) at nesting depth `depth`, with an onEviction that calls has(key)
\* with the key it is given: #deleteIfExpired calls onEviction before
\* this.delete(key), so the nested has finds the same entry; a call beyond
\* MaxDepth exhausts the stack (overflow), and the exception leaves every
\* pending call
RECURSIVE HasReentrant(_, _, _)
HasReentrant(s, k, depth) ==
    IF depth > MaxDepth
    THEN [st |-> s, ret |-> FALSE, overflow |-> TRUE]
    ELSE IF MapHas(s.cache, k) \/ MapHas(s.oldCache, k)
         THEN LET item == IF MapHas(s.cache, k) THEN MapGet(s.cache, k)
                          ELSE MapGet(s.oldCache, k)
              IN  IF IsExpired(item)
                  THEN LET nested == HasReentrant(OnEviction(s, k, item.value), k, depth + 1)
                       IN  IF nested.overflow
                           THEN nested
                           ELSE [st |-> DeleteKey(nested.st, k).st, ret |-> FALSE,
                                 overflow |-> FALSE]
                  ELSE [st |-> s, ret |-> TRUE, overflow |-> FALSE]
         ELSE [st |-> s, ret |-> FALSE, overflow |-> FALSE]

\* has that treats a stale hit as get does
HasOp_Promotes(s, k) ==
    LET g == GetOp(s, k)
    IN  [st |-> g.st, ret |-> g.ret # Undefined]

\* has(key)
HasOp(s, k) ==
    IF MapHas(s.cache, k)
    THEN LET d == DeleteIfExpired(s, k, MapGet(s.cache, k)) IN [st |-> d.st, ret |-> ~d.ret]
    ELSE IF MapHas(s.oldCache, k)
         THEN LET d == DeleteIfExpired(s, k, MapGet(s.oldCache, k)) IN [st |-> d.st, ret |-> ~d.ret]
         ELSE [st |-> s, ret |-> FALSE]


\* peek that looks in #oldCache before #cache
PeekOp_StaleFirst(s, k) ==
    IF MapHas(s.oldCache, k)
    THEN PeekIn(s, k, s.oldCache)
    ELSE IF MapHas(s.cache, k)
         THEN PeekIn(s, k, s.cache)
         ELSE [st |-> s, ret |-> Undefined]

\* peek that treats a stale hit as get does
PeekOp_Promotes(s, k) == GetOp(s, k)

\* peek(key)
PeekOp(s, k) ==
    IF MapHas(s.cache, k)
    THEN PeekIn(s, k, s.cache)
    ELSE IF MapHas(s.oldCache, k)
         THEN PeekIn(s, k, s.oldCache)
         ELSE [st |-> s, ret |-> Undefined]

\* expiresIn that looks in #oldCache before #cache
ExpiresInOp_StaleFirst(s, k) ==
    IF MapHas(s.cache, k) \/ MapHas(s.oldCache, k)
    THEN LET item == IF MapHas(s.oldCache, k) THEN MapGet(s.oldCache, k) ELSE MapGet(s.cache, k)
         IN  IF item.expiry # Undefined /\ item.expiry # 0
             THEN item.expiry - now
             ELSE Infinity
    ELSE Undefined

\* expiresIn(key)
ExpiresInOp(s, k) ==
    IF MapHas(s.cache, k) \/ MapHas(s.oldCache, k)
    THEN LET item == IF MapHas(s.cache, k) THEN MapGet(s.cache, k) ELSE MapGet(s.oldCache, k)
         IN  IF item.expiry # Undefined /\ item.expiry # 0
             THEN item.expiry - now
             ELSE Infinity
    ELSE Undefined


\* clear that forgets to reset #size
ClearOp_KeepSize(s) == [s EXCEPT !.cache = <<>>, !.oldCache = <<>>]

\* clear()
ClearOp(s) == [s EXCEPT !.cache = <<>>, !.oldCache = <<>>, !.size = 0]


\* resize that keeps the items in #cache also when they fill the new size exactly
\* (`<=` for `<`)
ResizeOp_GrowOnEqual(s, newSize) ==
    LET e == EntriesAscending(s)
        items == e.items
        removeCount == Len(items) - newSize
    IN  IF removeCount <= 0
        THEN [e.st EXCEPT !.cache = items, !.oldCache = <<>>, !.size = Len(items),
                          !.maxSize = newSize]
        ELSE [EmitEvictions(e.st, SubSeq(items, 1, removeCount))
              EXCEPT !.oldCache = Slice(items, removeCount), !.cache = <<>>, !.size = 0,
                     !.maxSize = newSize]

\* resize that removes one item too many
ResizeOp_OffByOne(s, newSize) ==
    LET e == EntriesAscending(s)
        items == e.items
        removeCount == Len(items) - newSize + 1
    IN  IF removeCount < 0
        THEN [e.st EXCEPT !.cache = items, !.oldCache = <<>>, !.size = Len(items),
                          !.maxSize = newSize]
        ELSE [(IF removeCount > 0
               THEN EmitEvictions(e.st, SubSeq(items, 1, removeCount))
               ELSE e.st)
              EXCEPT !.oldCache = Slice(items, removeCount), !.cache = <<>>, !.size = 0,
                     !.maxSize = newSize]

\* resize(newSize) when the argument check passes
ResizeOp(s, newSize) ==
    LET e == EntriesAscending(s)
        items == e.items
        removeCount == Len(items) - newSize
    IN  IF removeCount < 0
        THEN [e.st EXCEPT !.cache = items, !.oldCache = <<>>, !.size = Len(items),
                          !.maxSize = newSize]
        ELSE [(IF removeCount > 0
               THEN EmitEvictions(e.st, SubSeq(items, 1, removeCount))
               ELSE e.st)
              EXCEPT !.oldCache = Slice(items, removeCount), !.cache = <<>>, !.size = 0,
                     !.maxSize = newSize]

\* !(newSize && newSize > 0): resize throws
ResizeThrows(newSize) == newSize = 0 \/ ~(newSize > 0)

\* resize that checks its argument after it has materialised the items
ResizeCall_LateCheck(s, newSize) ==
    IF ResizeThrows(newSize)
    THEN [st |-> EntriesAscending(s).st, threw |-> TRUE]
    ELSE [st |-> ResizeOp(s, newSize), threw |-> FALSE]

\* resize(newSize): the state afterwards and whether the call threw
ResizeCall(s, newSize) ==
    IF ResizeThrows(newSize)
    THEN [st |-> s, threw |-> TRUE]
    ELSE [st |-> ResizeOp(s, newSize), threw |-> FALSE]

\* evict's count argument: a number given as twice its value (so that halves are
\* exact), NaN, or Infinity
Num(n2) == [kind |-> "num", n2 |-> n2]
NaN == [kind |-> "nan", n2 |-> 0]
Inf == [kind |-> "inf", n2 |-> 0]

\* the early return with `<` for `<=`, and zero not caught by `!requested`
NotPositive_Strict(c) == c.kind = "nan" \/ (c.kind = "num" /\ c.n2 < 0)

\* the early return taken for Infinity too
NotPositive_OrInfinite(c) == c.kind = "nan" \/ c.kind = "inf" \/ (c.kind = "num" /\ c.n2 <= 0)

\* !requested || requested <= 0
NotPositive(c) == c.kind = "nan" \/ (c.kind = "num" /\ c.n2 <= 0)


\* the count without the `- 1` that keeps one item
EvictCount_NoSurvivor(c, len) ==
    IF c.kind = "inf" \/ c.n2 >= 2 * len THEN len ELSE c.n2 \div 2

\* the count rounded up instead of truncated
EvictCount_RoundUp(c, len) ==
    LET m == IF len - 1 > 0 THEN len - 1 ELSE 0
    IN  IF c.kind = "inf" \/ c.n2 >= 2 * m THEN m ELSE (c.n2 + 1) \div 2

\* Math.trunc(Math.min(requested, Math.max(items.length - 1, 0))), requested > 0
EvictCount(c, len) ==
    LET m == IF len - 1 > 0 THEN len - 1 ELSE 0
    IN  IF c.kind = "inf" \/ c.n2 >= 2 * m THEN m ELSE c.n2 \div 2

\* evict(count)
EvictOp(s, c) ==
    IF NotPositive(c)
    THEN s
    ELSE LET e == EntriesAscending(s)
             items == e.items
             evictCount == EvictCount(c, Len(items))
         IN  IF evictCount <= 0
             THEN e.st
             ELSE [EmitEvictions(e.st, SubSeq(items, 1, evictCount))
                   EXCEPT !.oldCache = Slice(items, evictCount), !.cache = <<>>, !.size = 0]

\* the argument checks with `>=` for `>` and no truthiness test of maxSize
ConstructorThrows_AllowsZero(o) ==
    \/ ~(o.maxSize # Undefined /\ o.maxSize >= 0)
    \/ o.maxAge = 0

\* constructor(options): the argument checks
ConstructorThrows(o) ==
    \/ ~(o.maxSize # Undefined /\ o.maxSize # 0 /\ o.maxSize > 0)
    \/ o.maxAge = 0

\* this.#maxAge = options.maxAge || Number.POSITIVE_INFINITY
ConstructedMaxAge(o) == IF o.maxAge = Undefined \/ o.maxAge = 0 THEN Infinity ELSE o.maxAge

\* ---- the record of a completed call ----
Call(op, key, val, n, count, ret, yielded, emitted, threw) ==
    [op |-> op, key |-> key, val |-> val, n |-> n, count |-> count, ret |-> ret,
     yielded |-> yielded, emitted |-> emitted, threw |-> threw,
     before |-> <<Len(cache), Len(oldCache)>>]

Stored(k) == MapHas(cache, k) \/ MapHas(oldCache, k)
MoveToFront(q, k) == <<k>> \o SelectSeq(q, LAMBDA x : x # k)
InSeq(q, k) == \E i \in DOMAIN q : q[i] = k

\* the history variables after the call recorded in last'
History ==
    LET c == last'
        noExpiry == c.op = "set" /\ ExpiryFor(c.n, maxAge) = Undefined
        reads == {"get", "has", "peek", "expiresIn", "entriesAscending",
                  "entriesDescending", "iterator", "tick"}
        h == IF hist = "sets" /\ noExpiry /\ ~InSeq(mru, c.key) THEN "sets"
             ELSE IF hist # "any" /\ (noExpiry \/ c.op \in reads) THEN "plain"
             ELSE "any"
    IN  /\ hist' = h
        /\ mru' = IF h = "any" THEN <<>>
                  ELSE IF c.op = "set" \/ (c.op = "get" /\ c.ret # Undefined)
                       THEN MoveToFront(mru, c.key)
                       ELSE mru
        /\ written' = [k \in AllKeys |->
                          IF ~Stored(k)' THEN Undefined
                          ELSE IF c.op = "set" /\ c.key = k THEN c.val
                          ELSE written[k]]

\* the fields after a call that ended in state s
Fields(s) ==
    /\ cache' = s.cache
    /\ oldCache' = s.oldCache
    /\ size' = s.size
    /\ maxSize' = s.maxSize
    /\ UNCHANGED <<maxAge, now>>

\* ---- the calls ----
Set(k, v, ma) ==
    LET s == SetOp(Cur, k, v, ma)
    IN  /\ Fields(s)
        /\ last' = Call("set", k, v, ma, NaN, Undefined, <<>>, s.emitted, FALSE)
        /\ History

Get(k) ==
    LET r == GetOp(Cur, k)
    IN  /\ Fields(r.st)
        /\ last' = Call("get", k, 0, 0, NaN, r.ret, <<>>, r.st.emitted, FALSE)
        /\ History

Has(k) ==
    LET r == HasOp(Cur, k)
    IN  /\ Fields(r.st)
        /\ last' = Call("has", k, 0, 0, NaN, r.ret, <<>>, r.st.emitted, FALSE)
        /\ History

Peek(k) ==
    LET r == PeekOp(Cur, k)
    IN  /\ Fields(r.st)
        /\ last' = Call("peek", k, 0, 0, NaN, r.ret, <<>>, r.st.emitted, FALSE)
        /\ History

ExpiresIn(k) ==
    /\ Fields(Cur)
    /\ last' = Call("expiresIn", k, 0, 0, NaN, ExpiresInOp(Cur, k), <<>>, <<>>, FALSE)
    /\ History

Delete(k) ==
    LET r == DeleteKey(Cur, k)
    IN  /\ Fields(r.st)
        /\ last' = Call("delete", k, 0, 0, NaN, r.ret, <<>>, r.st.emitted, FALSE)
        /\ History

Clear ==
    LET s == ClearOp(Cur)
    IN  /\ Fields(s)
        /\ last' = Call("clear", 0, 0, 0, NaN, Undefined, <<>>, s.emitted, FALSE)
        /\ History

Resize(newSize) ==
    LET r == ResizeCall(Cur, newSize)
    IN  /\ Fields(r.st)
        /\ last' = Call("resize", 0, 0, newSize, NaN, Undefined, <<>>, r.st.emitted,
                        r.threw)
        /\ History

Evict(c) ==
    LET s == EvictOp(Cur, c)
    IN  /\ Fields(s)
        /\ last' = Call("evict", 0, 0, 0, c, Undefined, <<>>, s.emitted, FALSE)
        /\ History

Ascending ==
    LET e == EntriesAscending(Cur)
    IN  /\ Fields(e.st)
        /\ last' = Call("entriesAscending", 0, 0, 0, NaN, Undefined, Pairs(e.items),
                        e.st.emitted, FALSE)
        /\ History

Descending ==
    LET e == EntriesDescending(Cur)
    IN  /\ Fields(e.st)
        /\ last' = Call("entriesDescending", 0, 0, 0, NaN, Undefined, Pairs(e.items),
                        e.st.emitted, FALSE)
        /\ History

Iterate ==
    LET e == Iterator(Cur)
    IN  /\ Fields(e.st)
        /\ last' = Call("iterator", 0, 0, 0, NaN, Undefined, Pairs(e.items),
                        e.st.emitted, FALSE)
        /\ History

\* the clock advances between calls
Tick ==
    /\ now < MaxNow
    /\ now' = now + 1
    /\ UNCHANGED <<cache, oldCache, size, maxSize, maxAge>>
    /\ last' = Call("tick", 0, 0, 0, NaN, Undefined, <<>>, <<>>, FALSE)
    /\ History

\* ---- the arguments the calls are made with ----
MaxAges == {Undefined, 1}
Options == [maxSize : 0..MaxCap, maxAge : {Undefined, 0}]
NewSizes == -1..MaxCap
Counts == {NaN, Inf} \cup {Num(n2) : n2 \in {-2, 0, 1, 2, 3}}

Constructed(o) ==
    /\ ~ConstructorThrows(o)
    /\ cache = <<>>
    /\ oldCache = <<>>
    /\ size = 0
    /\ maxSize = o.maxSize
    /\ maxAge = ConstructedMaxAge(o)
    /\ now = 0
    /\ last = Call("new", 0, o.maxSize, o.maxAge, NaN, Undefined, <<>>, <<>>, FALSE)
    /\ hist = "sets"
    /\ mru = <<>>
    /\ written = [k \in AllKeys |-> Undefined]

Init == \E o \in Options : Constructed(o)

\* every call, over three keys and one value, with and without expiry
Next ==
    \/ \E k \in Keys, ma \in MaxAges : Set(k, 1, ma)
    \/ \E k \in Keys : Get(k)
    \/ \E k \in Keys : Has(k)
    \/ \E k \in Keys : Peek(k)
    \/ \E k \in Keys : ExpiresIn(k)
    \/ \E k \in Keys : Delete(k)
    \/ Clear
    \/ \E n \in NewSizes : Resize(n)
    \/ \E c \in Counts : Evict(c)
    \/ Ascending
    \/ Descending
    \/ Iterate
    \/ Tick

Spec == Init /\ [][Next]_vars

\* every call, over two keys and two values, with and without expiry
NextVal ==
    \/ \E k \in ValKeys, v \in Vals, ma \in MaxAges : Set(k, v, ma)
    \/ \E k \in ValKeys : Get(k)
    \/ \E k \in ValKeys : Has(k)
    \/ \E k \in ValKeys : Peek(k)
    \/ \E k \in ValKeys : ExpiresIn(k)
    \/ \E k \in ValKeys : Delete(k)
    \/ Clear
    \/ \E n \in NewSizes : Resize(n)
    \/ \E c \in Counts : Evict(c)
    \/ Ascending
    \/ Descending
    \/ Iterate
    \/ Tick

SpecVal == Init /\ [][NextVal]_vars

\* set and the reads, without expiry: the promotion and rotation protocol alone
InitLRU == \E c \in 1..LRUCap : Constructed([maxSize |-> c, maxAge |-> Undefined])

NextLRU ==
    \/ \E k \in LRUKeys : Set(k, 1, Undefined)
    \/ \E k \in LRUKeys : Get(k)
    \/ \E k \in LRUKeys : Has(k)
    \/ \E k \in LRUKeys : Peek(k)

SpecLRU == InitLRU /\ [][NextLRU]_vars

\* set and evict on a cache of capacity BigCap, without expiry
InitEvict == Constructed([maxSize |-> BigCap, maxAge |-> Undefined])

NextEvict ==
    \/ \E k \in BigKeys : Set(k, 1, Undefined)
    \/ \E c \in {Num(2), Inf} : Evict(c)

SpecEvict == InitEvict /\ [][NextEvict]_vars

\* set with and without a per-call maxAge on a cache with or without a default
\* maxAge, the reads, resize and the clock; maxSize = Undefined is a missing option
OptionsTTL == [maxSize : {Undefined} \cup (0..TTLCap), maxAge : {Undefined, 0, 1}]
TTLAges == {Undefined, 2, Infinity}
TTLSizes == {0, 1, TTLCap}

InitTTL == \E o \in OptionsTTL : Constructed(o)

NextTTL ==
    \/ \E k \in ValKeys, ma \in TTLAges : Set(k, 1, ma)
    \/ \E k \in ValKeys : Get(k)
    \/ \E k \in ValKeys : Has(k)
    \/ \E k \in ValKeys : ExpiresIn(k)
    \/ \E n \in TTLSizes : Resize(n)
    \/ Tick

SpecTTL == InitTTL /\ [][NextTTL]_vars

\* ---- definitions the properties share ----
Enumerations == {"entriesAscending", "entriesDescending", "iterator"}
StoredKeys == MapKeys(cache) \cup MapKeys(oldCache)
\* the entry a lookup of k finds: the recent copy first, else the stale copy
Lookup(k) == IF MapHas(cache, k) THEN MapGet(cache, k) ELSE MapGet(oldCache, k)
Min(a, b) == IF a < b THEN a ELSE b

\* C1: in every reachable state the reported size is at most the capacity, and
\* whenever #size is zero #oldCache holds at most maxSize entries.
C1_SizeAtMostCapacity ==
    /\ SizeOf(Cur) <= maxSize
    /\ (size = 0 => Len(oldCache) <= maxSize)

\* C2: while only sets of pairwise distinct keys without expiry have been made,
\* size <= capacity and the two generations together hold at most 2 x capacity
\* raw entries.
C2_DistinctSetsBounded ==
    hist = "sets" =>
        /\ SizeOf(Cur) <= maxSize
        /\ Len(cache) + Len(oldCache) <= 2 * maxSize

C2_Witness ==
    /\ hist = "sets"
    /\ last.op = "set"
    /\ maxSize = LRUCap
    /\ Len(mru) > maxSize
    /\ Len(cache) + Len(oldCache) = 2 * maxSize - 1
    /\ SizeOf(Cur) = maxSize

\* C3: without expiry, delete, clear, evict and resize, a key that was touched
\* (set, or got with a value) is still reported by has for as long as fewer than
\* capacity distinct other keys were touched since: the first maxSize keys of the
\* most-recently-touched order are all present.
C3_RecencyRetention ==
    hist # "any" =>
        \A i \in DOMAIN mru : i - 1 < maxSize => HasOp(Cur, mru[i]).ret

C3_Witness ==
    /\ hist # "any"
    /\ maxSize = LRUCap
    /\ Len(mru) > maxSize
    /\ \E i \in DOMAIN mru : i > maxSize /\ ~Stored(mru[i])
    /\ MapHas(oldCache, mru[maxSize])
    /\ last.op = "get"
    /\ last.ret # Undefined

\* C4: a get or peek that returns a value returns the value of the last set of
\* that key, also when an older copy of the key is left in #oldCache; an
\* enumeration yields each key with that value; and size counts a key that is in
\* both generations once.
C4_LastWriteWins ==
    /\ (last.op \in {"get", "peek"} /\ last.ret # Undefined) => last.ret = written[last.key]
    /\ last.op \in Enumerations =>
           \A i \in DOMAIN last.yielded : last.yielded[i][2] = written[last.yielded[i][1]]
    /\ \A k \in StoredKeys :
           /\ GetOp(Cur, k).ret \in {written[k], Undefined}
           /\ PeekOp(Cur, k).ret \in {written[k], Undefined}
    /\ (MapKeys(cache) \cap MapKeys(oldCache) # {}) =>
           SizeOf(Cur) = Min(Cardinality(StoredKeys), maxSize)

C4_Witness ==
    /\ last.op \in {"get", "peek"}
    /\ last.ret # Undefined
    /\ MapHas(cache, last.key)
    /\ MapHas(oldCache, last.key)
    /\ MapGet(oldCache, last.key).value # last.ret

\* the same questions asked of the state s a call ends in
StoredIn(s, k) == MapHas(s.cache, k) \/ MapHas(s.oldCache, k)
LookupIn(s, k) == IF MapHas(s.cache, k) THEN MapGet(s.cache, k) ELSE MapGet(s.oldCache, k)
Range(q) == {q[i] : i \in DOMAIN q}

\* C5: in every reachable state, a get, has or peek of a key whose found entry
\* (recent copy first, else the stale copy) is expired returns undefined/false,
\* leaves the key in neither generation and calls onEviction exactly once, with
\* that entry's key and value; when the found entry is not expired the call
\* returns its value/true, the key is still stored with the same value and
\* expiry, and onEviction is not called for it.
C5_LazyExpirationOnRead ==
    \A k \in StoredKeys :
        LET e == Lookup(k)
            g == GetOp(Cur, k)
            h == HasOp(Cur, k)
            p == PeekOp(Cur, k)
            Gone(r) == /\ ~StoredIn(r.st, k)
                       /\ r.st.emitted = << <<k, e.value>> >>
            Kept(r) == /\ StoredIn(r.st, k)
                       /\ LookupIn(r.st, k).value = e.value
                       /\ LookupIn(r.st, k).expiry = e.expiry
                       /\ \A i \in DOMAIN r.st.emitted : r.st.emitted[i][1] # k
        IN  IF IsExpired(e)
            THEN /\ g.ret = Undefined /\ p.ret = Undefined /\ h.ret = FALSE
                 /\ Gone(g) /\ Gone(h) /\ Gone(p)
            ELSE /\ g.ret = e.value /\ p.ret = e.value /\ h.ret = TRUE
                 /\ Kept(g) /\ Kept(h) /\ Kept(p)

C5_Witness ==
    /\ last.op \in {"get", "peek"}
    /\ last.ret = Undefined
    /\ Len(last.emitted) = 1
    /\ last.emitted[1][1] = last.key
    /\ last.before[1] + last.before[2] > Len(cache) + Len(oldCache) + 1
    /\ ~Stored(last.key)

\* the entries a lookup can find, by key
ExpiredKeys == {k \in StoredKeys : IsExpired(Lookup(k))}
LiveKeys == {k \in StoredKeys : ~IsExpired(Lookup(k))}
Without(m, k) == SelectSeq(m, LAMBDA e : e.key # k)

\* C6: in every reachable state, an enumeration (ascending, descending, plain
\* iteration) yields exactly the keys whose found entry is not expired, each once
\* and with that entry's value, and no expired entry; every key whose found entry
\* is expired is removed from the cache and reported to onEviction once.
EnumerationSkipsExpired(r) ==
    /\ Range(Pairs(r.items)) = {<<k, Lookup(k).value>> : k \in LiveKeys}
    /\ Len(r.items) = Cardinality(LiveKeys)
    /\ \A i \in DOMAIN r.items : ~IsExpired(r.items[i])
    /\ Range(r.st.emitted) = {<<k, Lookup(k).value>> : k \in ExpiredKeys}
    /\ Len(r.st.emitted) = Cardinality(ExpiredKeys)
    /\ \A k \in ExpiredKeys : ~StoredIn(r.st, k)
    /\ \A k \in LiveKeys : StoredIn(r.st, k) /\ LookupIn(r.st, k) = Lookup(k)

C6_EnumerationSkipsExpired ==
    /\ EnumerationSkipsExpired(EntriesAscending(Cur))
    /\ EnumerationSkipsExpired(EntriesDescending(Cur))
    /\ EnumerationSkipsExpired(Iterator(Cur))

C6_Witness ==
    /\ last.op \in Enumerations
    /\ Len(last.emitted) >= 1
    /\ Len(last.yielded) >= 1
    /\ \E k \in MapKeys(cache) \cap MapKeys(oldCache) : IsExpired(MapGet(oldCache, k))

\* C7: in every reachable state, delete(k) leaves k in neither generation, returns
\* true exactly when k was in one of them (so a second delete returns false),
\* decrements #size exactly when k was in #cache, leaves the other entries and
\* their order as they were, and does not call onEviction.
C7_Delete ==
    \A k \in AllKeys :
        LET r == DeleteKey(Cur, k)
        IN  /\ ~StoredIn(r.st, k)
            /\ r.ret = Stored(k)
            /\ r.st.size = IF MapHas(cache, k) THEN size - 1 ELSE size
            /\ r.st.cache = Without(cache, k)
            /\ r.st.oldCache = Without(oldCache, k)
            /\ r.st.maxSize = maxSize
            /\ r.st.emitted = <<>>
            /\ ~DeleteKey(r.st, k).ret

C7_Witness ==
    /\ last.op = "delete"
    /\ last.ret = TRUE
    /\ last.before[1] + last.before[2] = Len(cache) + Len(oldCache) + 2
    /\ Len(oldCache) >= 1

\* C8: in every reachable state, clear() leaves both generations empty and #size
\* zero, so that size is 0 and has is false for every key, keeps maxSize, and
\* does not call onEviction.
C8_Clear ==
    LET s == ClearOp(Cur)
    IN  /\ s.cache = <<>>
        /\ s.oldCache = <<>>
        /\ s.size = 0
        /\ SizeOf(s) = 0
        /\ \A k \in AllKeys : ~HasOp(s, k).ret
        /\ s.maxSize = maxSize
        /\ s.emitted = <<>>

C8_Witness ==
    /\ last.op = "clear"
    /\ last.before[1] >= 1
    /\ last.before[2] >= 1
    /\ size = 0
    /\ cache = <<>>
    /\ oldCache = <<>>

\* the ascending reconciled list: the stale entries whose key is not in #cache,
\* then the recent entries, without the expired ones (live) or only them (purged)
Reconciled(keep(_)) ==
    SelectSeq(oldCache, LAMBDA e : ~MapHas(cache, e.key) /\ keep(e))
        \o SelectSeq(cache, LAMBDA e : keep(e))
NotExpired(e) == ~IsExpired(e)
LiveAscending == Reconciled(NotExpired)
PurgedAscending == Reconciled(IsExpired)

\* C9: in every reachable state where a key with a non-expired found entry is
\* stored, evict(n) leaves one, for every n (positive, Infinity, fractional, zero,
\* negative, NaN), and the newest entry of the ascending list survives unchanged;
\* evict leaves the cache empty only when no stored key had a non-expired found
\* entry.
C9_EvictKeepsOne ==
    \A c \in Counts :
        LET s == EvictOp(Cur, c)
            L == LiveAscending
        IN  /\ LiveKeys # {} =>
                /\ \E k \in AllKeys : StoredIn(s, k) /\ ~IsExpired(LookupIn(s, k))
                /\ L[Len(L)] \in Range(s.oldCache) \cup Range(s.cache)
            /\ (s.cache = <<>> /\ s.oldCache = <<>>) => LiveKeys = {}

C9_Witness ==
    /\ last.op = "evict"
    /\ last.count = Inf
    /\ last.before[1] + last.before[2] >= 3
    /\ Len(last.emitted) >= 2
    /\ \E i \in DOMAIN last.emitted : last.emitted[i][1] \notin StoredKeys
    /\ Len(oldCache) = 1
    /\ LiveKeys # {}

\* trunc(n) for a positive count, and whether the count is positive
Trunc(c) == IF c.kind = "inf" THEN Infinity ELSE c.n2 \div 2
Positive(c) == c.kind = "inf" \/ (c.kind = "num" /\ c.n2 > 0)

\* C10: in every reachable state, evict(n) with n > 0 and
\* m = min(trunc(n), |L| - 1) >= 1, L the ascending list of non-expired
\* deduplicated entries: onEviction is called for the first m entries of L in
\* order (after the calls for the expired entries the enumeration removed), the
\* other |L| - m entries become #oldCache in the same order, #cache becomes empty
\* and #size 0.
C10_EvictOldest ==
    \A c \in Counts :
        LET s == EvictOp(Cur, c)
            L == LiveAscending
            m == Min(Trunc(c), Len(L) - 1)
        IN  (Positive(c) /\ m >= 1) =>
                /\ s.emitted = Pairs(PurgedAscending) \o Pairs(SubSeq(L, 1, m))
                /\ s.oldCache = SubSeq(L, m + 1, Len(L))
                /\ s.cache = <<>>
                /\ s.size = 0
                /\ s.maxSize = maxSize

C10_Witness ==
    /\ last.op = "evict"
    /\ last.count = Num(3)
    /\ last.before[1] >= 1
    /\ Len(last.emitted) = 2
    /\ Len(oldCache) >= 1
    /\ \E i \in DOMAIN oldCache : oldCache[i].expiry # Undefined

\* a generation without the keys whose found entry is expired
Purged(m) == SelectSeq(m, LAMBDA e : e.key \notin ExpiredKeys)
Unchanged(s) == s = Cur

\* C11 as stated: evict(n) with n zero, negative or NaN, any evict on an empty
\* cache, and evict(n) with 0 < n < 1 leave both generations, #size and maxSize
\* unchanged and do not call onEviction.
C11_EvictNoOpAlsoFractional ==
    \A c \in Counts :
        (~Positive(c) \/ (cache = <<>> /\ oldCache = <<>>) \/ Trunc(c) = 0) =>
            Unchanged(EvictOp(Cur, c))

\* C11 (amended): evict(n) with n zero, negative or NaN, and any evict on an
\* empty cache, leave both generations, #size and maxSize unchanged and do not
\* call onEviction.  evict(n) with 0 < n < 1 removes exactly the keys whose found
\* entry is expired, from both generations, calls onEviction for each of them in
\* ascending order, and changes nothing else; without such a key it changes
\* nothing.
C11_EvictNoOp ==
    \A c \in Counts :
        LET s == EvictOp(Cur, c)
        IN  /\ (~Positive(c) \/ (cache = <<>> /\ oldCache = <<>>)) => Unchanged(s)
            /\ (Positive(c) /\ Trunc(c) = 0) =>
                   /\ s.cache = Purged(cache)
                   /\ s.oldCache = Purged(oldCache)
                   /\ s.size = size - Cardinality(ExpiredKeys \cap MapKeys(cache))
                   /\ s.maxSize = maxSize
                   /\ s.emitted = Pairs(PurgedAscending)
                   /\ (ExpiredKeys = {} => Unchanged(s))

C11_Witness ==
    /\ last.op = "evict"
    /\ last.count = Num(1)
    /\ Len(last.emitted) >= 1
    /\ last.before[1] + last.before[2] > Len(cache) + Len(oldCache)
    /\ Len(cache) + Len(oldCache) >= 2

\* the sizes resize accepts, and some it rejects (-1 also stands for undefined)
ValidSizes == 1..MaxCap
InvalidSizes == {-2, -1, 0}

\* C12: in every reachable state, resize(c) with c >= 1, L the ascending list of
\* non-expired deduplicated entries: when |L| < c, L becomes #cache in the same
\* order, #oldCache is empty and #size = |L|; otherwise onEviction is called for
\* the first |L| - c entries of L in order (after the calls for the expired entries
\* the enumeration removed), the last c entries become #oldCache in the same
\* order, #cache is empty and #size = 0.  In both cases maxSize = c and size <= c.
C12_Resize ==
    \A c \in ValidSizes :
        LET r == ResizeCall(Cur, c)
            s == r.st
            L == LiveAscending
            n == Len(L)
        IN  /\ ~r.threw
            /\ s.maxSize = c
            /\ SizeOf(s) <= c
            /\ IF n < c
               THEN /\ s.cache = L
                    /\ s.oldCache = <<>>
                    /\ s.size = n
                    /\ s.emitted = Pairs(PurgedAscending)
               ELSE /\ s.emitted = Pairs(PurgedAscending) \o Pairs(SubSeq(L, 1, n - c))
                    /\ s.oldCache = SubSeq(L, n - c + 1, n)
                    /\ s.cache = <<>>
                    /\ s.size = 0

C12_Witness ==
    /\ last.op = "resize"
    /\ ~last.threw
    /\ last.n = MaxCap
    /\ last.before[1] >= 1
    /\ last.before[2] >= 1
    /\ Len(last.emitted) >= 1
    /\ Len(oldCache) = MaxCap
    /\ cache = <<>>
    /\ ExpiredKeys = {}
    /\ \A i \in DOMAIN last.emitted : last.emitted[i][1] \notin StoredKeys

\* C13 as stated: in every reachable state where at most c distinct keys are
\* stored, resize(c) does not call onEviction at all, and the keys with a
\* non-expired found entry are afterwards enumerated in the same ascending order
\* with the same values.
C13_ResizeNoShrinkNoCallback ==
    \A c \in ValidSizes :
        LET s == ResizeCall(Cur, c).st
        IN  Cardinality(StoredKeys) <= c =>
                /\ s.emitted = <<>>
                /\ EntriesAscending(s).items = LiveAscending

\* C13 (amended): in every reachable state where at most c distinct keys are
\* stored, resize(c) calls onEviction only for the keys whose found entry is
\* expired (once each), never for a key with a non-expired found entry, and the
\* keys with a non-expired found entry are afterwards enumerated in the same
\* ascending order with the same values and expiries.
C13_ResizeNoShrink ==
    \A c \in ValidSizes :
        LET s == ResizeCall(Cur, c).st
        IN  Cardinality(StoredKeys) <= c =>
                /\ s.emitted = Pairs(PurgedAscending)
                /\ \A i \in DOMAIN s.emitted : s.emitted[i][1] \notin LiveKeys
                /\ EntriesAscending(s).items = LiveAscending
                /\ \A k \in LiveKeys : StoredIn(s, k) /\ LookupIn(s, k) = Lookup(k)

C13_Witness ==
    /\ last.op = "resize"
    /\ ~last.threw
    /\ last.before[1] + last.before[2] <= last.n
    /\ Len(last.emitted) = 1
    /\ Len(cache) + Len(oldCache) >= 1
    /\ maxSize = last.n

\* C14: in every reachable state, resize(c) with c <= 0 or undefined throws and
\* leaves both generations, #size and maxSize as they were, removes no entry (not
\* even an expired one) and does not call onEviction.
C14_ResizeRejects ==
    /\ \A c \in InvalidSizes :
           LET r == ResizeCall(Cur, c)
           IN  r.threw /\ Unchanged(r.st)
    /\ (last.op = "resize" /\ last.threw) =>
           /\ last.n <= 0
           /\ last.emitted = <<>>
           /\ last.before = <<Len(cache), Len(oldCache)>>

C14_Witness ==
    /\ last.op = "resize"
    /\ last.threw
    /\ last.n < 0
    /\ ExpiredKeys # {}
    /\ cache # <<>>
    /\ oldCache # <<>>

\* the keys stored in both generations
SharedKeys == MapKeys(cache) \cap MapKeys(oldCache)

\* C15: in every reachable state and at every clock value, the entries the
\* ascending enumeration yields, reversed, are the entries the descending
\* enumeration yields; also when the one enumeration runs after the other has
\* removed the expired entries.
C15_AscendingDescendingDuality ==
    LET a == EntriesAscending(Cur)
        d == EntriesDescending(Cur)
    IN  /\ Reverse(Pairs(a.items)) = Pairs(d.items)
        /\ Pairs(EntriesDescending(a.st).items) = Reverse(Pairs(a.items))
        /\ Reverse(Pairs(EntriesAscending(d.st).items)) = Pairs(d.items)

C15_Witness ==
    /\ last.op = "entriesDescending"
    /\ Len(last.yielded) >= 2
    /\ \E k \in SharedKeys : IsExpired(MapGet(oldCache, k))
    /\ last.yielded = Reverse(Pairs(EntriesAscending(Cur).items))

\* C16: in every reachable state, the ascending enumeration yields every key whose
\* found entry is not expired exactly once: first the entries of #oldCache whose
\* key is not in #cache, in the order of #oldCache, then the entries of #cache in
\* the order of #cache; a key in both generations is yielded at its place in
\* #cache, with the value stored there.
C16_AscendingOrder ==
    LET items == EntriesAscending(Cur).items
    IN  /\ items = LiveAscending
        /\ MapKeys(items) = LiveKeys
        /\ Cardinality(MapKeys(items)) = Len(items)
        /\ \A i, j \in DOMAIN items :
               (MapHas(cache, items[i].key) /\ ~MapHas(cache, items[j].key)) => j < i
        /\ \A k \in SharedKeys \cap LiveKeys : MapGet(items, k) = MapGet(cache, k)

C16_Witness ==
    /\ last.op = "entriesAscending"
    /\ Len(last.yielded) = 2
    /\ \E k \in SharedKeys :
           /\ MapGet(oldCache, k).value # MapGet(cache, k).value
           /\ oldCache[1].key = k
           /\ last.yielded[2] = <<k, MapGet(cache, k).value>>
    /\ ~MapHas(cache, last.yielded[1][1])

\* ---- every call that can be made in the current state, with its outcome ----
\* the calls that may evict: the state each ends in, and the number of entries it
\* stored (a set of a key that is not in #cache stores one)
EvictingCalls ==
    {[st |-> SetOp(Cur, k, v, ma), added |-> IF MapHas(cache, k) THEN 0 ELSE 1] :
        k \in AllKeys, v \in Vals, ma \in MaxAges}
    \cup {[st |-> GetOp(Cur, k).st, added |-> 0] : k \in AllKeys}
    \cup {[st |-> HasOp(Cur, k).st, added |-> 0] : k \in AllKeys}
    \cup {[st |-> PeekOp(Cur, k).st, added |-> 0] : k \in AllKeys}
    \cup {[st |-> ResizeCall(Cur, n).st, added |-> 0] : n \in ValidSizes \cup InvalidSizes}
    \cup {[st |-> EvictOp(Cur, c), added |-> 0] : c \in Counts}
    \cup {[st |-> EntriesAscending(Cur).st, added |-> 0],
          [st |-> EntriesDescending(Cur).st, added |-> 0],
          [st |-> Iterator(Cur).st, added |-> 0]}

\* the manual removals
ManualCalls == {DeleteKey(Cur, k).st : k \in AllKeys} \cup {ClearOp(Cur)}

RawCount(s) == Len(s.cache) + Len(s.oldCache)
RawPairs(s) == Range(Pairs(s.cache)) \cup Range(Pairs(s.oldCache))
ReportsOf(s, k) == {i \in DOMAIN s.emitted : s.emitted[i][1] = k}

\* C17 as stated: in every reachable state, a call that may evict calls onEviction
\* once for each entry it discards from storage, with a key and value that were
\* stored: the number of callbacks is the number of entries that left the two
\* maps; delete and clear call onEviction never.
C17_EveryDiscardedEntryReported ==
    /\ \A c \in EvictingCalls :
           /\ Len(c.st.emitted) = RawCount(Cur) + c.added - RawCount(c.st)
           /\ \A i \in DOMAIN c.st.emitted : c.st.emitted[i] \in RawPairs(Cur)
    /\ \A s \in ManualCalls : s.emitted = <<>>

\* C17 (amended): in every reachable state, when a call that may evict (a
\* rotation in set or get, resize, evict, lazy expiry in a read or an
\* enumeration) leaves a stored key in neither generation, it has called
\* onEviction exactly once for that key, with the value of the entry a lookup
\* found; no call reports a key twice, and every reported pair was stored;
\* delete and clear call onEviction never.
C17_RemovedKeyReportedOnce ==
    /\ \A c \in EvictingCalls :
           LET s == c.st
           IN  /\ \A k \in StoredKeys :
                      ~StoredIn(s, k) =>
                          /\ Cardinality(ReportsOf(s, k)) = 1
                          /\ \A i \in ReportsOf(s, k) : s.emitted[i] = <<k, Lookup(k).value>>
               /\ \A k \in AllKeys : Cardinality(ReportsOf(s, k)) <= 1
               /\ \A i \in DOMAIN s.emitted : s.emitted[i] \in RawPairs(Cur)
    /\ \A s \in ManualCalls : s.emitted = <<>>

C17_Witness ==
    /\ last.op = "evict"
    /\ Len(last.emitted) = 1
    /\ last.before[1] + last.before[2] = Len(cache) + Len(oldCache) + 2
    /\ last.emitted[1][1] \notin StoredKeys
    /\ Len(oldCache) = 1

\* C18: in every reachable state, whenever a call invokes onEviction(k, v) (in a
\* rotation, resize, evict or a lazy expiry), the entry k -> v is at that moment
\* still in the generation that held it: the callback comes before the removal.
C18_CallbackBeforeRemoval ==
    \A c \in EvictingCalls :
        LET s == c.st
        IN  /\ Len(s.seen) = Len(s.emitted)
            /\ \A i \in DOMAIN s.seen : s.seen[i].cache \/ s.seen[i].oldCache

C18_Witness ==
    /\ last.op \in {"set", "has", "resize"}
    /\ Len(last.emitted) >= 1
    /\ \A i \in DOMAIN last.emitted : last.emitted[i][1] \notin StoredKeys
    /\ Len(cache) + Len(oldCache) >= 1

\* C19: in every reachable state, a key a call reports to onEviction is in neither
\* generation when the call has completed.
C19_ReportedKeyIsGone ==
    \A c \in EvictingCalls :
        \A i \in DOMAIN c.st.emitted : ~StoredIn(c.st, c.st.emitted[i][1])

\* C20 as stated: in every reachable state and for every key, also one whose
\* entry is expired, peek(k) leaves #cache, #oldCache and #size as they were.
C20_PeekChangesNothing ==
    \A k \in AllKeys :
        LET s == PeekOp(Cur, k).st
        IN  /\ s.cache = cache
            /\ s.oldCache = oldCache
            /\ s.size = size

\* C20 (amended): in every reachable state, peek(k) never moves an entry from
\* #oldCache to #cache.  For a key that is not stored or whose found entry is not
\* expired it leaves both generations, #size and maxSize as they were and calls
\* onEviction never; for a key whose found entry is expired it removes that key
\* from both generations, decrements #size when the key was in #cache, calls
\* onEviction once for the found entry, and leaves every other entry in place.
C20_PeekNeverPromotes ==
    \A k \in AllKeys :
        LET s == PeekOp(Cur, k).st
        IN  IF Stored(k) /\ IsExpired(Lookup(k))
            THEN /\ s.cache = Without(cache, k)
                 /\ s.oldCache = Without(oldCache, k)
                 /\ s.size = IF MapHas(cache, k) THEN size - 1 ELSE size
                 /\ s.maxSize = maxSize
                 /\ s.emitted = << <<k, Lookup(k).value>> >>
            ELSE Unchanged(s)

C20_Witness ==
    /\ last.op = "peek"
    /\ last.ret = Undefined
    /\ Len(last.emitted) = 1
    /\ last.before = <<Len(cache), Len(oldCache) + 1>>
    /\ Len(cache) >= 1
    /\ \E k \in MapKeys(oldCache) \ MapKeys(cache) : PeekOp(Cur, k).ret # Undefined

\* C21: in every reachable state, has(k) and peek(k) of a key that is not stored,
\* or whose found entry is not expired, leave #cache, #oldCache, #size and maxSize
\* as they were and do not call onEviction: a stale hit stays in #oldCache; so
\* an evict or a set after the call ends as it would have ended without it.
C21_HasPeekFrame ==
    \A k \in AllKeys :
        (~Stored(k) \/ ~IsExpired(Lookup(k))) =>
            LET h == HasOp(Cur, k)
                p == PeekOp(Cur, k)
            IN  /\ Unchanged(h.st)
                /\ Unchanged(p.st)
                /\ h.ret = Stored(k)
                /\ p.ret = IF Stored(k) THEN Lookup(k).value ELSE Undefined
                /\ \A c \in Counts : EvictOp(h.st, c) = EvictOp(Cur, c)
                /\ \A j \in AllKeys : SetOp(p.st, j, 1, Undefined) = SetOp(Cur, j, 1, Undefined)

C21_Witness ==
    /\ last.op = "has"
    /\ last.ret = TRUE
    /\ MapHas(oldCache, last.key)
    /\ ~MapHas(cache, last.key)
    /\ Lookup(last.key).expiry # Undefined
    /\ cache # <<>>
    /\ last.before = <<Len(cache), Len(oldCache)>>

\* C22: in every reachable state, expiresIn(k) returns undefined for a key in
\* neither generation, Infinity for a found entry without expiry and
\* expiry - now for a found entry with an expiry (at most 0 once it is expired),
\* the found entry being the one in #cache when the key is in both; the call
\* changes neither generation nor #size and calls onEviction never.
C22_ExpiresInReadOnly ==
    /\ \A k \in AllKeys :
           LET r == ExpiresInOp(Cur, k)
           IN  IF ~Stored(k) THEN r = Undefined
               ELSE IF Lookup(k).expiry = Undefined THEN r = Infinity
               ELSE /\ r = Lookup(k).expiry - now
                    /\ IsExpired(Lookup(k)) <=> r <= 0
    /\ last.op = "expiresIn" =>
           /\ last.before = <<Len(cache), Len(oldCache)>>
           /\ last.emitted = <<>>
           /\ last.ret = ExpiresInOp(Cur, last.key)

C22_Witness ==
    /\ last.op = "expiresIn"
    /\ Stored(last.key)
    /\ IsExpired(Lookup(last.key))
    /\ last.ret = 0
    /\ \E k \in SharedKeys : MapGet(oldCache, k).expiry # MapGet(cache, k).expiry

\* the expiry of an entry set now with per-call maxAge ma (Undefined: no option
\* given): as the claim states it, and with an option of Infinity meaning no expiry
ClaimedExpiry(ma) ==
    IF ma # Undefined /\ ma # Infinity THEN now + ma
    ELSE IF maxAge # Infinity THEN now + maxAge
    ELSE Undefined
ExpectedExpiry(ma) ==
    IF ma = Undefined
    THEN IF maxAge # Infinity THEN now + maxAge ELSE Undefined
    ELSE IF ma # Infinity THEN now + ma ELSE Undefined

\* C23 as stated: after set(k, v, ttl) the entry found for k has expiry now + ttl
\* for a finite ttl, otherwise now + defaultTTL for a finite default, otherwise none.
C23_NonFiniteOverrideUsesDefault ==
    /\ \A k \in ValKeys, ma \in TTLAges :
           LookupIn(SetOp(Cur, k, 1, ma), k).expiry = ClaimedExpiry(ma)
    /\ last.op = "set" => Lookup(last.key).expiry = ClaimedExpiry(last.n)

\* C23: after set(k, v, ttl) the entry found for k has value v and expiry
\* now + ttl for a finite ttl, no expiry for a ttl of Infinity (whatever the
\* default), and without a ttl now + defaultTTL for a finite default and no
\* expiry otherwise; this replaces the expiry k had before; an entry found
\* without expiry is read as present at every time of the clock.
C23_ExpiryAssignment ==
    /\ \A k \in ValKeys, ma \in TTLAges :
           LET s == SetOp(Cur, k, 1, ma)
           IN  /\ StoredIn(s, k)
               /\ LookupIn(s, k) = [key |-> k, value |-> 1, expiry |-> ExpectedExpiry(ma)]
    /\ last.op = "set" =>
           /\ Stored(last.key)
           /\ Lookup(last.key).expiry = ExpectedExpiry(last.n)
    /\ \A k \in ValKeys :
           Stored(k) /\ Lookup(k).expiry = Undefined =>
               /\ HasOp(Cur, k).ret
               /\ GetOp(Cur, k).ret = Lookup(k).value
               /\ ExpiresInOp(Cur, k) = Infinity

C23_Witness ==
    /\ last.op = "set"
    /\ last.n = Infinity
    /\ maxAge # Infinity
    /\ now = MaxNow
    /\ MapHas(cache, last.key)
    /\ MapGet(cache, last.key).expiry = Undefined
    /\ MapHas(oldCache, last.key)
    /\ IsExpired(MapGet(oldCache, last.key))

\* C24: in every state reached by calls without expiry, the size getter returns
\* the number of entries the iterator yields (keys(), values() and entries()
\* loop over the same iterator).
C24_SizeMatchesEnumeration ==
    SizeOf(Cur) = Len(Iterator(Cur).items)

\* n sets of keys no call has used (LRUKey + n, ..., LRUKey + 1), each preceded
\* by get(j) unless j = 0, applied to s
RECURSIVE FreshSets(_, _, _)
FreshSets(s, n, j) ==
    IF n = 0
    THEN s
    ELSE LET r == IF j = 0 THEN s ELSE GetOp(s, j).st
         IN  FreshSets(SetOp(r, LRUKey + n, 1, Undefined), n - 1, j)

ReportedIn(s, k) == \E i \in DOMAIN s.emitted : s.emitted[i][1] = k

\* C25: without expiry and without delete/clear/evict/resize, from every
\* reachable state, set(k) followed by 2 x maxSize - 1 sets of keys never used
\* before (with or without gets of another key in between) leaves k in neither
\* generation, has(k) false, and onEviction has been called for k; and while
\* only sets of distinct keys have been made, every key followed by at least
\* 2 x maxSize - 1 further sets is stored no more.
C25_EventualEviction ==
    /\ hist = "sets" => \A i \in DOMAIN mru : i >= 2 * maxSize => ~Stored(mru[i])
    /\ \A k \in LRUKeys : \A j \in {0} \cup (LRUKeys \ {k}) :
           LET f == FreshSets(SetOp(Cur, k, 1, Undefined), 2 * maxSize - 1, j)
           IN  /\ ~StoredIn(f, k)
               /\ ~HasOp(f, k).ret
               /\ ReportedIn(f, k)

C25_Witness ==
    /\ hist = "sets"
    /\ maxSize = LRUCap
    /\ Len(mru) = 2 * maxSize
    /\ last.op = "set"
    /\ \E i \in DOMAIN last.emitted : last.emitted[i][1] = mru[2 * maxSize]
    /\ ~Stored(mru[2 * maxSize])

\* sets that miss (each of the smallest key not stored) and evict, on a cache of
\* capacity RawCap without expiry
RawKeys == 1..RawKey
InitRaw == Constructed([maxSize |-> RawCap, maxAge |-> Undefined])

NextRaw ==
    \/ \E k \in RawKeys \ StoredKeys :
          /\ \A j \in RawKeys \ StoredKeys : k <= j
          /\ Set(k, 1, Undefined)
    \/ \E c \in {Num(2), Num(4), Inf} : Evict(c)

SpecRaw == InitRaw /\ [][NextRaw]_vars

\* C26: in every reachable state, also after evict, #cache and #oldCache
\* together hold at most 2 x maxSize raw entries.
C26_RawStorageBound ==
    Len(cache) + Len(oldCache) <= 2 * maxSize

\* set(q[i]), ..., set(q[n]) applied to s
RECURSIVE SetsOf(_, _, _, _)
SetsOf(s, q, i, n) ==
    IF i > n
    THEN s
    ELSE SetsOf(SetOp(s, q[i], 1, Undefined), q, i + 1, n)

\* the sequences of n pairwise distinct keys other than k: keys the calls have
\* used and keys they have not
OtherKeys(k) == (LRUKeys \ {k}) \cup {LRUKey + 1, LRUKey + 2}
DistinctSeqs(S, n) == {q \in [1..n -> S] : \A i, j \in 1..n : q[i] = q[j] => i = j}
StaleKeys == MapKeys(oldCache) \ MapKeys(cache)
SurvivesSets(s, k, n) ==
    \A q \in DistinctSeqs(OtherKeys(k), n) : StoredIn(SetsOf(s, q, 1, n), k)

\* C27 as stated: without expiry, delete, clear, evict and resize, a key found
\* only in #oldCache and promoted by get(k) is still stored after maxSize sets
\* of pairwise distinct other keys, whether or not the promotion rotated.
C27_SurvivesCapacitySets ==
    \A k \in StaleKeys : SurvivesSets(GetOp(Cur, k).st, k, maxSize)

\* C27: without expiry, delete, clear, evict and resize, a key found only in
\* #oldCache and promoted by get(k) is still stored after maxSize - 1 sets of
\* pairwise distinct other keys, and after maxSize of them when the promotion
\* did not rotate (#size + 1 < maxSize before the get).
C27_PromotionGuarantee ==
    \A k \in StaleKeys :
        LET g == GetOp(Cur, k)
        IN  /\ g.ret = MapGet(oldCache, k).value
            /\ SurvivesSets(g.st, k, maxSize - 1)
            /\ size + 1 < maxSize => SurvivesSets(g.st, k, maxSize)
            /\ size + 1 >= maxSize =>
                   ~StoredIn(FreshSets(g.st, maxSize, 0), k)

C27_Witness ==
    /\ last.op = "get"
    /\ last.ret # Undefined
    /\ maxSize = LRUCap
    /\ last.before[1] + 1 = maxSize
    /\ cache = <<>>
    /\ size = 0
    /\ oldCache[Len(oldCache)].key = last.key
    /\ ~StoredIn(FreshSets(Cur, maxSize, 0), last.key)

InsertedOrRotated(s, item, outgoing) ==
    /\ s.maxSize = maxSize
    /\ IF size + 1 = maxSize
       THEN /\ s.emitted = Pairs(outgoing)
            /\ \A i \in DOMAIN s.seen : s.seen[i].oldCache
            /\ s.oldCache = Append(cache, item)
            /\ s.cache = <<>>
            /\ s.size = 0
       ELSE /\ s.emitted = <<>>
            /\ s.oldCache = outgoing
            /\ s.cache = Append(cache, item)
            /\ s.size = size + 1

\* C29: in every reachable state 0 <= #size < maxSize; set of a key that is not
\* in #cache, and get of a key found only in #oldCache and not expired, append
\* the entry to #cache and increment #size; exactly when #size thereby equals
\* maxSize, onEviction is called for every entry of #oldCache (without the
\* promoted key) in insertion order, each still in #oldCache at its call,
\* then #oldCache is the former #cache with the new entry last, #cache is empty
\* and #size is 0.
C29_RotationProtocol ==
    /\ 0 <= size /\ size < maxSize
    /\ \A k \in AllKeys : \A ma \in MaxAges :
           ~MapHas(cache, k) =>
               InsertedOrRotated(SetOp(Cur, k, 1, ma),
                                 [key |-> k, value |-> 1, expiry |-> ExpectedExpiry(ma)],
                                 oldCache)
    /\ \A k \in StaleKeys :
           ~IsExpired(MapGet(oldCache, k)) =>
               InsertedOrRotated(GetOp(Cur, k).st, MapGet(oldCache, k),
                                 SelectSeq(oldCache, LAMBDA e : e.key # k))

C29_Witness ==
    /\ last.op = "get"
    /\ last.ret # Undefined
    /\ Len(last.emitted) >= 1
    /\ last.before[1] >= 1
    /\ cache = <<>>
    /\ size = 0
    /\ oldCache[Len(oldCache)].key = last.key
    /\ oldCache[Len(oldCache)].expiry # Undefined

C31_PromotionOnGet ==
    \A k \in StaleKeys :
        ~IsExpired(MapGet(oldCache, k)) =>
            LET g == GetOp(Cur, k)
                t == g.st
            IN  /\ g.ret = MapGet(oldCache, k).value
                /\ ~(MapHas(t.cache, k) /\ MapHas(t.oldCache, k))
                /\ ~ReportedIn(t, k)
                /\ HasOp(t, k).ret
                /\ IF size + 1 < maxSize
                   THEN /\ t.cache[Len(t.cache)] = MapGet(oldCache, k)
                        /\ ~MapHas(t.oldCache, k)
                   ELSE /\ t.oldCache[Len(t.oldCache)] = MapGet(oldCache, k)
                        /\ t.cache = <<>>

C31_Witness ==
    /\ last.op = "get"
    /\ last.ret # Undefined
    /\ last.emitted = <<>>
    /\ last.before = <<Len(cache) - 1, Len(oldCache) + 1>>
    /\ cache[Len(cache)].key = last.key
    /\ ~MapHas(oldCache, last.key)
    /\ oldCache # <<>>

\* C32: in every reachable state, get(k) of a key whose entry in #cache is not
\* expired returns its value, get(k) of a key in neither map returns undefined,
\* and both leave #cache (its order included), #oldCache, #size and maxSize as
\* they were and call onEviction never; every evict after the call ends as it
\* would have ended without it.
C32_GetRecentOrAbsentFrame ==
    \A k \in AllKeys :
        LET g == GetOp(Cur, k)
        IN  /\ MapHas(cache, k) /\ ~IsExpired(MapGet(cache, k)) =>
                   /\ g.ret = MapGet(cache, k).value
                   /\ Unchanged(g.st)
                   /\ \A c \in Counts : EvictOp(g.st, c) = EvictOp(Cur, c)
            /\ ~Stored(k) =>
                   /\ g.ret = Undefined
                   /\ Unchanged(g.st)

C32_Witness ==
    /\ last.op = "get"
    /\ last.ret # Undefined
    /\ last.emitted = <<>>
    /\ last.before = <<Len(cache), Len(oldCache)>>
    /\ Len(cache) >= 2
    /\ cache[1].key = last.key
    /\ cache[1].expiry # Undefined
    /\ EvictOp(Cur, Num(2)).emitted = <<<<last.key, cache[1].value>>>>

\* C33 as stated: #size is the number of insertions into #cache since the last
\* rotation, so a call that neither inserts nor rotates nor rebuilds the maps
\* (a delete, a has that finds an expired entry) leaves #size as it was.
C33_SizeCountsInsertions ==
    \A k \in AllKeys :
        /\ DeleteKey(Cur, k).st.size = size
        /\ HasOp(Cur, k).st.size = size

\* C33: in every reachable state #size is the number of entries of #cache. An
\* insert of a key that is not in #cache adds one to both or rotates (both 0),
\* a set of a key in #cache changes neither, and the removal of a key of
\* #cache by delete or by lazy expiry takes one from both: in-place updates
\* never make the two differ.
C33_SizeIsRecentSize ==
    /\ size = Len(cache)
    /\ \A k \in AllKeys : \A ma \in MaxAges :
           LET s == SetOp(Cur, k, 1, ma)
               d == DeleteKey(Cur, k).st
               h == HasOp(Cur, k).st
               gone == IF MapHas(cache, k) THEN 1 ELSE 0
           IN  /\ s.size = Len(s.cache)
               /\ s.size = IF MapHas(cache, k) THEN size
                           ELSE IF size + 1 = maxSize THEN 0 ELSE size + 1
               /\ d.size = Len(d.cache)
               /\ d.size = size - gone
               /\ h.size = Len(h.cache)
               /\ h.size = IF Stored(k) /\ IsExpired(Lookup(k)) THEN size - gone ELSE size

C33_Witness ==
    /\ last.op = "set"
    /\ last.emitted = <<>>
    /\ last.before = <<Len(cache), Len(oldCache)>>
    /\ MapHas(cache, last.key)
    /\ size = Len(cache)
    /\ size = 1
    /\ oldCache # <<>>
    /\ \E k \in MapKeys(cache) : DeleteKey(Cur, k).st.size = 0

\* C34: in every reachable state, when onEviction throws during the rotation
\* of a set, the state the exception leaves has #size equal to the number of
\* entries of #cache and below maxSize, and at most maxSize entries in
\* #oldCache.
C34_ThrowKeepsInvariants ==
    \A k \in AllKeys : \A ma \in MaxAges :
        LET t == SetOpThrown(Cur, k, 1, ma)
        IN  t.threw =>
                /\ t.st.size = Len(t.st.cache)
                /\ t.st.size < t.st.maxSize
                /\ Len(t.st.oldCache) <= t.st.maxSize

\* C35 as stated: in every reachable state, evict(n) with n zero, negative, NaN
\* or Infinity leaves every key with a non-expired found entry stored and
\* calls onEviction for none of them.
C35_EvictInfinityNoOp ==
    \A c \in Counts :
        (c.kind = "inf" \/ ~Positive(c)) =>
            LET s == EvictOp(Cur, c)
            IN  /\ \A k \in LiveKeys : StoredIn(s, k)
                /\ \A i \in DOMAIN s.emitted : s.emitted[i][1] \notin LiveKeys

\* C35: in every reachable state, evict(n) with n zero, negative or NaN
\* changes nothing and calls onEviction never; evict(Infinity), with L the
\* ascending list of non-expired deduplicated entries, calls onEviction for
\* the expired entries and then for all of L but its last entry, in order, and
\* leaves that last entry alone in #oldCache, #cache empty and #size 0; with
\* fewer than two entries in L it only removes the expired ones.
C35_EvictInfinity ==
    /\ \A c \in Counts : ~Positive(c) => Unchanged(EvictOp(Cur, c))
    /\ LET s == EvictOp(Cur, Inf)
           L == LiveAscending
       IN  /\ s.emitted = Pairs(PurgedAscending) \o Pairs(SubSeq(L, 1, Len(L) - 1))
           /\ s.maxSize = maxSize
           /\ IF Len(L) >= 2
              THEN /\ s.oldCache = <<L[Len(L)]>>
                   /\ s.cache = <<>>
                   /\ s.size = 0
              ELSE /\ s.cache = Purged(cache)
                   /\ s.oldCache = Purged(oldCache)
                   /\ s.size = Len(s.cache)

C35_Witness ==
    /\ last.op = "evict"
    /\ last.count = Inf
    /\ Len(last.emitted) >= 1
    /\ cache = <<>>
    /\ size = 0
    /\ Len(oldCache) = 1
    /\ oldCache[1].expiry # Undefined
    /\ ~IsExpired(oldCache[1])
    /\ \A i \in DOMAIN last.emitted : last.emitted[i][1] # oldCache[1].key

\* a call on key k expired the entry e: it reported e to onEviction and left e
\* in neither map
LazilyExpired(s, k, e) ==
    /\ \E i \in DOMAIN s.emitted : s.emitted[i] = <<k, e.value>>
    /\ e \notin Range(s.cache) \cup Range(s.oldCache)

\* C36: in every reachable state and for every key whose found entry is
\* expired, the next call on the key, get, has, peek or set, reports that
\* entry to onEviction and leaves it in neither map.
C36_LazyExpirationOnWriteOrRead ==
    \A k \in ExpiredKeys :
        /\ LazilyExpired(GetOp(Cur, k).st, k, Lookup(k))
        /\ LazilyExpired(HasOp(Cur, k).st, k, Lookup(k))
        /\ LazilyExpired(PeekOp(Cur, k).st, k, Lookup(k))
        /\ \A ma \in MaxAges : LazilyExpired(SetOp(Cur, k, 1, ma), k, Lookup(k))

\* the keys no call has used yet, while only sets of distinct keys were made
NewKeys == {k \in LRUKeys : ~InSeq(mru, k)}
\* whether k is stored after set(k) and n sets of further new keys
StoredAfter(k, n) == StoredIn(FreshSets(SetOp(Cur, k, 1, Undefined), n, 0), k)

\* C37 as stated: while only sets of distinct new keys are made, a key set as
\* the first entry after a rotation (#size = 0, #oldCache filled) is gone after
\* maxSize further sets, and a key whose set triggers the rotation (#size = maxSize - 1) is
\* still stored after 2 x maxSize - 2 further sets.
C37_FirstEntryShortLived ==
    hist = "sets" =>
        \A k \in NewKeys :
            /\ size = 0 /\ oldCache # <<>> => ~StoredAfter(k, maxSize)
            /\ size = maxSize - 1 => StoredAfter(k, 2 * maxSize - 2)

\* C37: while only sets of distinct new keys are made, a key set as the first
\* entry after a rotation (#size = 0) is still stored after 2 x maxSize - 2
\* further sets and gone after 2 x maxSize - 1, and a key whose set triggers
\* the rotation (#size = maxSize - 1) is still stored after maxSize - 1 further
\* sets and gone after maxSize.
C37_GenerationSkew ==
    hist = "sets" =>
        \A k \in NewKeys :
            /\ size = 0 =>
                   /\ StoredAfter(k, 2 * maxSize - 2)
                   /\ ~StoredAfter(k, 2 * maxSize - 1)
            /\ size = maxSize - 1 =>
                   /\ StoredAfter(k, maxSize - 1)
                   /\ ~StoredAfter(k, maxSize)

C37_Witness ==
    /\ hist = "sets"
    /\ maxSize = LRUCap
    /\ last.op = "set"
    /\ Len(mru) = maxSize + 1
    /\ Len(oldCache) = maxSize
    /\ oldCache[maxSize].key = mru[2]
    /\ Len(cache) = 1
    /\ cache[1].key = mru[1]
    /\ size = 1
    /\ NewKeys # {}

\* #size is the number of entries of #cache, is not negative and is below maxSize
CounterAgrees(s) ==
    /\ s.size = Len(s.cache)
    /\ 0 <= s.size
    /\ s.size < s.maxSize

\* C38: in every reachable state, and in the state every call (set, get, has,
\* peek, delete, clear, resize, evict, the enumerations) leaves when applied to
\* it, #size is the number of entries of #cache and 0 <= #size < maxSize.
C38_CounterAgreesWithRecent ==
    /\ CounterAgrees(Cur)
    /\ \A c \in EvictingCalls : CounterAgrees(c.st)
    /\ \A s \in ManualCalls : CounterAgrees(s)

C38_Witness ==
    /\ last.op = "resize"
    /\ ~last.threw
    /\ last.n = 1
    /\ last.before[1] >= 1
    /\ Len(last.emitted) >= 1
    /\ maxSize = 1
    /\ size = 0
    /\ cache = <<>>
    /\ Len(oldCache) = 1
    /\ \E k \in Keys : MapHas(DeleteKey(Cur, k).st.oldCache, k) = FALSE /\ DeleteKey(Cur, k).ret

\* a cache without expiry whose entries are all in #cache, as it is while no
\* rotation has happened; the plain map it is compared with is #cache itself
NoRotationYet ==
    /\ oldCache = <<>>
    /\ maxAge = Infinity
    /\ \A i \in DOMAIN cache : cache[i].expiry = Undefined
\* s is the cache that stands for the plain map m, after a call without callback
StandsFor(s, m) ==
    /\ s.cache = m
    /\ s.oldCache = <<>>
    /\ s.size = Len(m)
    /\ s.maxSize = maxSize
    /\ s.emitted = <<>>
    /\ SizeOf(s) = Len(m)
    /\ EntriesAscending(s).items = m

\* C39: in every reachable state without expiry in which all entries are in
\* #cache, the cache stands for the plain map M = #cache: size is |M| and the
\* ascending enumeration is M in insertion order; get, peek and has return
\* what M.get and M.has return and change nothing; delete returns what
\* M.delete returns, clear empties, and a set that does not rotate does what
\* M.set does; after each of them the cache stands for the resulting map and
\* onEviction was not called.
C39_MapEquivalence ==
    NoRotationYet =>
        /\ StandsFor(Cur, cache)
        /\ StandsFor(ClearOp(Cur), <<>>)
        /\ \A k \in AllKeys :
               LET found == IF MapHas(cache, k) THEN MapGet(cache, k).value ELSE Undefined
                   d == DeleteKey(Cur, k)
               IN  /\ GetOp(Cur, k) = [st |-> Cur, ret |-> found]
                   /\ PeekOp(Cur, k) = [st |-> Cur, ret |-> found]
                   /\ HasOp(Cur, k) = [st |-> Cur, ret |-> MapHas(cache, k)]
                   /\ d.ret = MapHas(cache, k)
                   /\ StandsFor(d.st, MapDelete(cache, k))
                   /\ \A v \in Vals :
                          (MapHas(cache, k) \/ size + 1 < maxSize) =>
                              StandsFor(SetOp(Cur, k, v, Undefined),
                                        MapSet(cache, k, [value |-> v, expiry |-> Undefined]))

C39_Witness ==
    /\ NoRotationYet
    /\ hist = "plain"
    /\ maxSize = TTLCap
    /\ Len(cache) = 2
    /\ last.op = "get"
    /\ last.key = cache[1].key
    /\ last.ret = cache[1].value
    /\ last.emitted = <<>>

\* C40: in every reachable state and for every key whose found entry is
\* expired, has(k) on a cache whose onEviction calls has with the key it is
\* given returns, and onEviction has been called for the entry exactly once.
C40_ReentrantHasReturns ==
    \A k \in ExpiredKeys :
        LET r == HasReentrant(Cur, k, 1)
        IN  /\ ~r.overflow
            /\ Cardinality(ReportsOf(r.st, k)) = 1

====
